---------------------------- MODULE Spec2Model ----------------------------
(***************************************************************************)
(* Model of materials/static/materials/js/main.js: the page-load handler   *)
(* that wires counters, typewriters, lazy images, notifications, the       *)
(* scroll-to-top button and the theme toggle, and the two global helpers   *)
(* copyToClipboard and shareContent.                                       *)
(*                                                                         *)
(* The browser is the environment: it delivers DOMContentLoaded, queues    *)
(* and delivers IntersectionObserver entries, fires timers, dispatches     *)
(* scroll and click events and settles the clipboard promise.              *)
(***************************************************************************)
EXTENDS Integers, Sequences, FiniteSets, TLC

(***************************************************************************)
(* Bounds of the model.                                                    *)
(***************************************************************************)
MaxQueued == 3          \* entries an observer may hold before its callback runs
MaxTextLen == 3         \* length of a typewriter's source text
MaxNotifications == 2   \* notifications created in one page life
MaxShares == 2          \* shareContent calls in one page life
MaxToggles == 3         \* theme-toggle clicks in one page life
MaxErrors == 2          \* exceptions thrown by handlers in one page life

(***************************************************************************)
(* Program constants.                                                      *)
(***************************************************************************)
Duration == 2000        \* animateCounter's default duration
TickMs == 16            \* the ramp's interval, and the divisor of duration
ScrollThreshold == 300  \* pageYOffset beyond which the button is shown
ElementVisible == 150   \* animateOnScroll's elementVisible
HeaderOffset == 80      \* the anchor handler scrolls to offsetTop - 80

(***************************************************************************)
(* The page: the elements the handler queries.                             *)
(***************************************************************************)
Counters == {"c1"}
Typewriters == {"t1"}
Images == {"i1"}
AosElements == {"a1", "a2"}
Anchors == {"l1"}       \* a[href^="#"]
Cards == {"k1"}         \* .card
Observers == {"counter", "image"} \cup Typewriters

Null == "null"

(***************************************************************************)
(* JavaScript numbers as the ramp uses them: NaN or a number.              *)
(***************************************************************************)
NaN == [kind |-> "nan", val |-> 0]
Num(n) == [kind |-> "num", val |-> n]

Digits == {"0", "1", "2", "3", "4", "5", "6", "7", "8", "9"}

DigitVal(ch) ==
    CASE ch = "0" -> 0 [] ch = "1" -> 1 [] ch = "2" -> 2 [] ch = "3" -> 3
      [] ch = "4" -> 4 [] ch = "5" -> 5 [] ch = "6" -> 6 [] ch = "7" -> 7
      [] ch = "8" -> 8 [] ch = "9" -> 9

RECURSIVE SkipSpace(_)
SkipSpace(s) ==
    IF s # <<>> /\ Head(s) = " " THEN SkipSpace(Tail(s)) ELSE s

\* the longest prefix of decimal digits of s, as a number; acc is the value so far
RECURSIVE ScanDigits(_, _)
ScanDigits(s, acc) ==
    IF s # <<>> /\ Head(s) \in Digits
    THEN ScanDigits(Tail(s), 10 * acc + DigitVal(Head(s)))
    ELSE acc

\* parseInt(string): leading blanks, an optional sign, then decimal digits up
\* to the first other character; NaN when there is no digit.
ParseInt(str) ==
    LET s == SkipSpace(str)
        neg == s # <<>> /\ Head(s) = "-"
        body == IF s # <<>> /\ Head(s) \in {"-", "+"} THEN Tail(s) ELSE s
    IN  IF body = <<>> \/ Head(body) \notin Digits
        THEN NaN
        ELSE Num(IF neg THEN 0 - ScanDigits(body, 0) ELSE ScanDigits(body, 0))

\* data-target attributes a page may carry
TargetAttrs ==
    { <<"0">>, <<"3">>, <<"2", "0", "0">>, <<"2", "5", "0">>, <<"-", "5">>,
      <<" ", "7">>, <<"1", "2", "p", "x">>, <<"a", "b", "c">>, <<>> }


\* the source texts a typewriter element may carry: every string over
\* {"a", "b"} of length 0..MaxTextLen
RECURSIVE TextsOfLen(_)
TextsOfLen(n) ==
    IF n = 0 THEN {<<>>}
    ELSE {Append(t, ch) : t \in TextsOfLen(n - 1), ch \in {"a", "b"}}

Texts == UNION {TextsOfLen(n) : n \in 0..MaxTextLen}

ViewportHeights == {600}
AosTops == {200, 750}
ScrollOffsets ==
    {0, ScrollThreshold - 1, ScrollThreshold, ScrollThreshold + 1, 2 * ScrollThreshold}
StoredThemes == {Null, "", "light", "dark", "blue"}
\* href attributes an in-page link may carry; "s" is the id of the section
Hrefs == { <<"#">>, <<"#", "s">>, <<"#", "x">>, <<"#", "1">> }
SectionTops == {40, 680}

OneShots == Counters \cup Typewriters \cup Images
Optional ==
    OneShots \cup AosElements \cup Anchors \cup Cards \cup {"hero", "themeToggle", "section"}

VARIABLES
    \* the page as loaded: markup, browser capabilities, storage
    present,            \* the optional elements the markup contains
    targetAttr,         \* data-target of each counter
    twText,             \* text content of each typewriter in the markup
    aosTop,             \* document offset of each animate-on-scroll element
    innerHeight,        \* window.innerHeight
    navigatorShare,     \* navigator.share is present
    href,               \* href of each in-page link
    sectionTop,         \* offsetTop of the element with id "s"
    storage,            \* localStorage item 'theme'
    \* script state
    loaded,             \* the DOMContentLoaded handler has run
    windowShowNotification, \* window.showNotification is defined
    \* intersection observers
    ioTargets,          \* observer -> observed elements
    ioPrev,             \* element -> last isIntersecting computed for it
    ioQueue,            \* observer -> queued entries
    started,            \* element -> number of times its animation was started
    \* counters
    counterText,        \* textContent of each counter
    ramps,              \* counter -> the interval timers animateCounter created
    turn,               \* counter -> index of the ramp whose timer fires next, 0 if none
    roundErr,           \* counter -> rounding direction of the current round of ticks
    \* typewriters
    twDisplay,          \* textContent of each typewriter
    twI,                \* the closure variable i
    twTimeouts,         \* pending setTimeout(typeWriter, 50) calls
    \* lazy images
    imgSrc,             \* src of each image: "placeholder" or "data-src"
    imgLoaded,          \* the image carries class 'loaded'
    \* notifications
    notifCreated,       \* notifications created so far
    notifInPage,        \* notification nodes attached to document.body
    notifTimers,        \* notifications whose 5000 ms timeout is pending
    \* scrolling
    pageYOffset,        \* window.pageYOffset
    scrollPending,      \* the offset changed and no scroll event was dispatched yet
    scrolled,           \* a scroll event was dispatched since the handlers were attached
    btnDisplay,         \* scrollToTopBtn.style.display, "absent" before it is created
    heroTransform,      \* the hero's style.transform: unset, or translate3d's y in half pixels
    aosVisible,         \* animate-on-scroll elements carrying class 'visible'
    \* theme
    dataTheme,          \* body attribute data-theme
    bodyTransition,     \* body.style.transition was set by the toggle
    lastToggled,        \* the value the last toggle click wrote, Null if none
    toggles,            \* toggle clicks in this page life
    \* sharing
    nativeShares,       \* navigator.share calls
    clipboardWrites,    \* navigator.clipboard.writeText calls
    clipboardPending,   \* writeText promises not settled yet
    clipboardResolved,  \* writeText promises that resolved
    referenceErrors,    \* calls of showNotification while it was undefined
    \* cards and links
    cardTransform,      \* style.transform of each card: "unset", "lifted" or "rest"
    uncaughtErrors,     \* exceptions thrown out of event handlers
    \* history
    themeBefore,        \* data-theme and stored theme before each toggle click of this page life
    staleTimeouts       \* notifications whose timeout fired after the node had left the page

pageVars == <<present, targetAttr, twText, aosTop, innerHeight, navigatorShare, href,
              sectionTop>>
handlerVars == <<cardTransform, uncaughtErrors>>
historyVars == <<themeBefore, staleTimeouts>>
ioVars == <<ioTargets, ioPrev, ioQueue, started>>
counterVars == <<counterText, ramps, turn, roundErr>>
twVars == <<twDisplay, twI, twTimeouts>>
imgVars == <<imgSrc, imgLoaded>>
notifVars == <<notifCreated, notifInPage, notifTimers>>
scrollVars == <<pageYOffset, scrollPending, scrolled, btnDisplay, heroTransform, aosVisible>>
themeVars == <<storage, dataTheme, bodyTransition, lastToggled, toggles>>
shareVars == <<nativeShares, clipboardWrites, clipboardPending, clipboardResolved,
               referenceErrors>>
vars == <<pageVars, loaded, windowShowNotification, ioVars, counterVars, twVars,
          imgVars, notifVars, scrollVars, themeVars, shareVars, handlerVars,
          historyVars>>

Orig == [kind |-> "orig", val |-> 0]

\* the document before any script touched it
FreshDocument ==
    /\ loaded = FALSE
    /\ windowShowNotification = FALSE
    /\ ioTargets = [o \in Observers |-> {}]
    /\ ioPrev = [e \in OneShots |-> "none"]
    /\ ioQueue = [o \in Observers |-> <<>>]
    /\ started = [e \in OneShots |-> 0]
    /\ counterText = [c \in Counters |-> Orig]
    /\ ramps = [c \in Counters |-> <<>>]
    /\ turn = [c \in Counters |-> 0]
    /\ roundErr = [c \in Counters |-> 0]
    /\ twDisplay = twText
    /\ twI = [t \in Typewriters |-> 0]
    /\ twTimeouts = [t \in Typewriters |-> 0]
    /\ imgSrc = [i \in Images |-> "placeholder"]
    /\ imgLoaded = [i \in Images |-> FALSE]
    /\ notifCreated = 0
    /\ notifInPage = {}
    /\ notifTimers = {}
    /\ scrollPending = FALSE
    /\ scrolled = FALSE
    /\ btnDisplay = "absent"
    /\ heroTransform = [set |-> FALSE, halfPx |-> 0]
    /\ aosVisible = {}
    /\ dataTheme = Null
    /\ bodyTransition = FALSE
    /\ lastToggled = Null
    /\ toggles = 0
    /\ nativeShares = 0
    /\ clipboardWrites = 0
    /\ clipboardPending = 0
    /\ clipboardResolved = 0
    /\ referenceErrors = 0
    /\ cardTransform = [k \in Cards |-> "unset"]
    /\ uncaughtErrors = 0
    /\ themeBefore = <<>>
    /\ staleTimeouts = {}

\* the script has been evaluated (the listener is registered, the two global
\* functions are declared); DOMContentLoaded has not been dispatched yet
Init ==
    /\ present \in SUBSET Optional
    /\ targetAttr \in [Counters -> TargetAttrs]
    /\ twText \in [Typewriters -> Texts]
    /\ aosTop \in [AosElements -> AosTops]
    /\ innerHeight \in ViewportHeights
    /\ navigatorShare \in BOOLEAN
    /\ href \in [Anchors -> Hrefs]
    /\ sectionTop \in SectionTops
    /\ storage \in StoredThemes
    /\ pageYOffset \in ScrollOffsets
    /\ FreshDocument


(***************************************************************************)
(* 4. Counters: animateCounter and its interval callback.                  *)
(*                                                                         *)
(* start and increment are kept multiplied by Duration, so that            *)
(* increment = target / (Duration / TickMs) is the integer target * TickMs *)
(* and `start >= target` compares start with target * Duration.            *)
(***************************************************************************)
Increment(target) ==
    IF target.kind = "nan" THEN NaN ELSE Num(target.val * TickMs)

\* start += increment
NumAdd(a, b) ==
    IF a.kind = "nan" \/ b.kind = "nan" THEN NaN ELSE Num(a.val + b.val)

\* mutant: start > target
ReachedTargetStrict(start, target, err) ==
    /\ start.kind = "num"
    /\ target.kind = "num"
    /\ start.val > target.val * Duration

\* start >= target; every comparison with NaN is false. err is the sign of the
\* floating-point error start carries: it decides the comparison only when the
\* exact values are equal.
ReachedTarget(start, target, err) ==
    /\ start.kind = "num"
    /\ target.kind = "num"
    /\ \/ start.val > target.val * Duration
       \/ start.val = target.val * Duration /\ err >= 0

\* Math.floor(start); Math.floor(NaN) is NaN. A start that is an integer in
\* exact arithmetic but was rounded below it floors to one less.
MathFloor(start, err) ==
    IF start.kind = "nan" THEN NaN
    ELSE IF start.val % Duration = 0 /\ err < 0
         THEN Num((start.val \div Duration) - 1)
         ELSE Num(start.val \div Duration)

\* the state animateCounter(element, target) creates: start = 0 and a running
\* interval timer
AnimateCounter(target) ==
    [target |-> target, start |-> Num(0), ticks |-> 0, active |-> TRUE]

\* mutant: the last tick writes Math.floor(start) instead of target
TimerTickNoSnap(r, err) ==
    LET start1 == NumAdd(r.start, Increment(r.target))
        reached == ReachedTarget(start1, r.target, err)
    IN  [ramp |-> [r EXCEPT !.start = start1,
                            !.ticks = @ + 1,
                            !.active = ~reached],
         text |-> MathFloor(start1, err)]

\* one run of the interval callback of ramp r: the ramp afterwards and the
\* textContent it writes
TimerTick(r, err) ==
    LET start1 == NumAdd(r.start, Increment(r.target))
        reached == ReachedTarget(start1, r.target, err)
    IN  [ramp |-> [r EXCEPT !.start = start1,
                            !.ticks = @ + 1,
                            !.active = ~reached],
         text |-> IF reached THEN r.target ELSE MathFloor(start1, err)]

\* The rounding directions a double sum can have after the next addition: the
\* sum is exact when the increment is an integer (or NaN), and its error
\* matters only where the exact sum is an integer.
ErrChoices(r) ==
    LET start1 == NumAdd(r.start, Increment(r.target))
    IN  IF start1.kind = "nan" \/ Increment(r.target).val % Duration = 0
           \/ start1.val % Duration # 0
        THEN {0}
        ELSE {-1, 0, 1}

\* the running ramps among rs
Running(rs) == {h \in DOMAIN rs : rs[h].active}

Lowest(S) == CHOOSE h \in S : \A g \in S : h <= g

\* Interval timers created in the same task with the same delay run in the
\* order of their creation, round after round (HTML timer ordering): after
\* ramp j the next running ramp of the element fires, and after the last one
\* the first again.  0 when no timer is left.
NextTurn(rs, j) ==
    IF Running(rs) = {} THEN 0
    ELSE IF \E h \in Running(rs) : h > j
         THEN Lowest({h \in Running(rs) : h > j})
         ELSE Lowest(Running(rs))

\* ticks are counted up to the longest ramp there is; a ramp that never ends
\* stays at the cap
MaxTicks == (Duration \div TickMs) + 2

CounterTick(c) ==
    /\ turn[c] # 0
    /\ LET j == turn[c]
           r == ramps[c][j]
       IN  \E err \in ErrChoices(r) :
             \* the ramps of an element compute the same sums: a tick another
             \* ramp has run already rounds as it did there
             /\ (\E h \in DOMAIN ramps[c] : ramps[c][h].ticks > r.ticks)
                   => err = roundErr[c]
             /\ LET res == TimerTick(r, err)
                    capped == [res.ramp EXCEPT
                                 !.ticks = IF @ > MaxTicks THEN MaxTicks ELSE @]
                    rs == [ramps[c] EXCEPT ![j] = capped]
                IN  /\ ramps' = [ramps EXCEPT ![c] = rs]
                    /\ counterText' = [counterText EXCEPT ![c] = res.text]
                    /\ turn' = [turn EXCEPT ![c] = NextTurn(rs, j)]
                    /\ roundErr' = [roundErr EXCEPT ![c] = err]
    /\ UNCHANGED <<pageVars, handlerVars, historyVars,
                   loaded, windowShowNotification, ioVars, twVars, imgVars,
                   notifVars, scrollVars, themeVars, shareVars>>

(***************************************************************************)
(* 5. Typewriter: one call of typeWriter for element t.                    *)
(***************************************************************************)
\* mutant: the character after the i-th is appended (charAt past the end is '')
TypeWriterOffByOne(t, st) ==
    IF st.i[t] < Len(twText[t])
    THEN [st EXCEPT !.display[t] = IF st.i[t] + 2 <= Len(twText[t])
                                   THEN Append(@, twText[t][st.i[t] + 2]) ELSE @,
                    !.i[t] = @ + 1,
                    !.timeouts[t] = @ + 1]
    ELSE st

TypeWriter(t, st) ==
    IF st.i[t] < Len(twText[t])
    THEN [st EXCEPT !.display[t] = Append(@, twText[t][st.i[t] + 1]),
                    !.i[t] = @ + 1,
                    !.timeouts[t] = @ + 1]
    ELSE st

\* a pending setTimeout(typeWriter, 50) fires
TypeWriterTimeout(t) ==
    /\ twTimeouts[t] > 0
    /\ LET st == TypeWriter(t, [display |-> twDisplay, i |-> twI,
                                timeouts |-> [twTimeouts EXCEPT ![t] = @ - 1]])
       IN  /\ twDisplay' = st.display
           /\ twI' = st.i
           /\ twTimeouts' = st.timeouts
    /\ UNCHANGED <<pageVars, handlerVars, historyVars,
                   loaded, windowShowNotification, ioVars, counterVars,
                   imgVars, notifVars, scrollVars, themeVars, shareVars>>


(***************************************************************************)
(* Intersection observers.  The browser computes isIntersecting for every  *)
(* observed target at each rendering update and queues an entry when it    *)
(* differs from the previous one (the first computation always queues);    *)
(* the callback later receives every entry queued since its last run.      *)
(***************************************************************************)
ObserverOf(e) ==
    IF e \in Counters THEN "counter" ELSE IF e \in Images THEN "image" ELSE e

IOUpdate(e, b) ==
    /\ e \in ioTargets[ObserverOf(e)]
    /\ ioPrev[e] # b
    /\ Len(ioQueue[ObserverOf(e)]) < MaxQueued
    /\ ioPrev' = [ioPrev EXCEPT ![e] = b]
    /\ ioQueue' = [ioQueue EXCEPT ![ObserverOf(e)] =
                      Append(@, [target |-> e, isIntersecting |-> (b = "yes")])]
    /\ UNCHANGED <<pageVars, handlerVars, historyVars,
                   loaded, windowShowNotification, ioTargets, started,
                   counterVars, twVars, imgVars, notifVars, scrollVars, themeVars,
                   shareVars>>

\* the callback of `observer` (counters) over its entries, in order
RECURSIVE CounterObserverCallback(_, _)
CounterObserverCallback(entries, st) ==
    IF entries = <<>> THEN st
    ELSE LET entry == Head(entries)
             target == ParseInt(targetAttr[entry.target])
         IN  CounterObserverCallback(Tail(entries),
                IF entry.isIntersecting
                THEN [st EXCEPT
                        !.ramps[entry.target] = Append(@, AnimateCounter(target)),
                        !.targets = @ \ {entry.target},
                        !.started[entry.target] = @ + 1]
                ELSE st)

\* the callback of a typewriterObserver over its entries, in order
RECURSIVE TypewriterObserverCallback(_, _, _)
TypewriterObserverCallback(t, entries, st) ==
    IF entries = <<>> THEN st
    ELSE LET entry == Head(entries)
         IN  TypewriterObserverCallback(t, Tail(entries),
                IF entry.isIntersecting
                THEN [TypeWriter(t, st) EXCEPT
                        !.targets = @ \ {entry.target},
                        !.started[t] = @ + 1]
                ELSE st)

\* the callback of imageObserver over its entries, in order
RECURSIVE ImageObserverCallback(_, _)
ImageObserverCallback(entries, st) ==
    IF entries = <<>> THEN st
    ELSE LET entry == Head(entries)
         IN  ImageObserverCallback(Tail(entries),
                IF entry.isIntersecting
                THEN [st EXCEPT
                        !.src[entry.target] = "data-src",
                        !.loaded[entry.target] = TRUE,
                        !.targets = @ \ {entry.target},
                        !.started[entry.target] = @ + 1]
                ELSE st)

\* the browser delivers the queued entries of the counter observer
CounterObserverNotify ==
    /\ ioQueue["counter"] # <<>>
    /\ LET st == CounterObserverCallback(ioQueue["counter"],
                    [ramps |-> ramps, targets |-> ioTargets["counter"],
                     started |-> started])
       IN  /\ ramps' = st.ramps
           /\ ioTargets' = [ioTargets EXCEPT !["counter"] = st.targets]
           /\ started' = st.started
           \* a new timer waits behind the ones already running
           /\ turn' = [c \in Counters |->
                         IF turn[c] = 0 THEN NextTurn(st.ramps[c], 0) ELSE turn[c]]
    /\ ioQueue' = [ioQueue EXCEPT !["counter"] = <<>>]
    /\ UNCHANGED <<pageVars, handlerVars, historyVars,
                   loaded, windowShowNotification, ioPrev, counterText,
                   roundErr, twVars, imgVars, notifVars, scrollVars, themeVars,
                   shareVars>>

\* the browser delivers the queued entries of typewriter t's observer
TypewriterObserverNotify(t) ==
    /\ ioQueue[t] # <<>>
    /\ LET st == TypewriterObserverCallback(t, ioQueue[t],
                    [display |-> twDisplay, i |-> twI, timeouts |-> twTimeouts,
                     targets |-> ioTargets[t], started |-> started])
       IN  /\ twDisplay' = st.display
           /\ twI' = st.i
           /\ twTimeouts' = st.timeouts
           /\ ioTargets' = [ioTargets EXCEPT ![t] = st.targets]
           /\ started' = st.started
    /\ ioQueue' = [ioQueue EXCEPT ![t] = <<>>]
    /\ UNCHANGED <<pageVars, handlerVars, historyVars,
                   loaded, windowShowNotification, ioPrev, counterVars,
                   imgVars, notifVars, scrollVars, themeVars, shareVars>>

\* the browser delivers the queued entries of the image observer
ImageObserverNotify ==
    /\ ioQueue["image"] # <<>>
    /\ LET st == ImageObserverCallback(ioQueue["image"],
                    [src |-> imgSrc, loaded |-> imgLoaded,
                     targets |-> ioTargets["image"], started |-> started])
       IN  /\ imgSrc' = st.src
           /\ imgLoaded' = st.loaded
           /\ ioTargets' = [ioTargets EXCEPT !["image"] = st.targets]
           /\ started' = st.started
    /\ ioQueue' = [ioQueue EXCEPT !["image"] = <<>>]
    /\ UNCHANGED <<pageVars, handlerVars, historyVars,
                   loaded, windowShowNotification, ioPrev, counterVars,
                   twVars, notifVars, scrollVars, themeVars, shareVars>>

(***************************************************************************)
(* 2, 3, 9. Scroll listeners.                                              *)
(***************************************************************************)
\* mutant: an element exactly on the threshold counts as in view
AnimateOnScrollInclusive(y) ==
    {e \in AosElements \cap present :
        aosTop[e] - y <= innerHeight - ElementVisible}

\* the elements animateOnScroll adds class 'visible' to at offset y
AnimateOnScroll(y) ==
    {e \in AosElements \cap present :
        aosTop[e] - y < innerHeight - ElementVisible}

\* rate = scrolled * -0.5, in half pixels
Parallax(y) == [set |-> TRUE, halfPx |-> 0 - y]

\* mutant: the button is shown from the threshold on
ScrollToTopDisplayInclusive(y) == IF y >= ScrollThreshold THEN "flex" ELSE "none"

\* scrollToTopBtn.style.display after the listener ran at offset y
ScrollToTopDisplay(y) == IF y > ScrollThreshold THEN "flex" ELSE "none"

\* the user or a scrollTo moves the page; the scroll event follows
Scroll(y) ==
    /\ y # pageYOffset
    /\ pageYOffset' = y
    /\ scrollPending' = TRUE
    /\ UNCHANGED <<pageVars, handlerVars, historyVars,
                   loaded, windowShowNotification, ioVars, counterVars,
                   twVars, imgVars, notifVars, scrolled, btnDisplay, heroTransform,
                   aosVisible, themeVars, shareVars>>

\* the scroll event: every listener the handler attached runs
ScrollEvent ==
    /\ scrollPending
    /\ scrollPending' = FALSE
    /\ IF loaded
       THEN /\ scrolled' = TRUE
            /\ aosVisible' = aosVisible \cup AnimateOnScroll(pageYOffset)
            /\ heroTransform' = IF "hero" \in present
                                THEN Parallax(pageYOffset) ELSE heroTransform
            /\ btnDisplay' = ScrollToTopDisplay(pageYOffset)
       ELSE UNCHANGED <<scrolled, aosVisible, heroTransform, btnDisplay>>
    /\ UNCHANGED <<pageVars, handlerVars, historyVars,
                   loaded, windowShowNotification, ioVars, counterVars,
                   twVars, imgVars, notifVars, pageYOffset, themeVars, shareVars>>

\* click on the scroll-to-top button: window.scrollTo({top: 0})
ScrollToTopClick ==
    /\ btnDisplay = "flex"
    /\ pageYOffset # 0
    /\ pageYOffset' = 0
    /\ scrollPending' = TRUE
    /\ UNCHANGED <<pageVars, handlerVars, historyVars,
                   loaded, windowShowNotification, ioVars, counterVars,
                   twVars, imgVars, notifVars, scrolled, btnDisplay, heroTransform,
                   aosVisible, themeVars, shareVars>>


(***************************************************************************)
(* 6. Notifications.                                                       *)
(***************************************************************************)
\* the body of window.showNotification: a new node n is appended to the body
\* and its 5000 ms timeout is set
ShowNotification(st) ==
    LET n == st.created + 1
    IN  [created |-> n, inPage |-> st.inPage \cup {n}, timers |-> st.timers \cup {n}]

\* mutant: the callback removes every notification in the page
NotificationTimeoutAll(n, inPage) == {}

\* mutant: the parentNode test is inverted
NotificationTimeoutInverted(n, inPage) ==
    IF n \notin inPage THEN inPage \ {n} ELSE inPage

\* the timeout callback of notification n
NotificationTimeout(n, inPage) ==
    IF n \in inPage THEN inPage \ {n} ELSE inPage

\* a page script calls showNotification(message, type)
CallShowNotification ==
    /\ notifCreated < MaxNotifications
    /\ IF windowShowNotification
       THEN LET st == ShowNotification([created |-> notifCreated,
                                        inPage |-> notifInPage,
                                        timers |-> notifTimers])
            IN  /\ notifCreated' = st.created
                /\ notifInPage' = st.inPage
                /\ notifTimers' = st.timers
                /\ UNCHANGED referenceErrors
       ELSE /\ referenceErrors' = referenceErrors + 1
            /\ referenceErrors < MaxNotifications
            /\ UNCHANGED notifVars
    /\ UNCHANGED <<pageVars, handlerVars, historyVars,
                   loaded, windowShowNotification, ioVars, counterVars,
                   twVars, imgVars, scrollVars, themeVars, nativeShares,
                   clipboardWrites, clipboardPending, clipboardResolved>>

\* the 5000 ms timeout of notification n fires
NotificationTimerFires(n) ==
    /\ n \in notifTimers
    /\ notifTimers' = notifTimers \ {n}
    /\ notifInPage' = NotificationTimeout(n, notifInPage)
    /\ staleTimeouts' = IF n \in notifInPage THEN staleTimeouts ELSE staleTimeouts \cup {n}
    /\ UNCHANGED <<pageVars, handlerVars, themeBefore,
                   loaded, windowShowNotification, ioVars, counterVars,
                   twVars, imgVars, notifCreated, scrollVars, themeVars, shareVars>>

\* the user clicks the close button (data-bs-dismiss="alert"): the alert
\* component removes the node
Dismiss(n) ==
    /\ n \in notifInPage
    /\ notifInPage' = notifInPage \ {n}
    /\ UNCHANGED <<pageVars, handlerVars, historyVars,
                   loaded, windowShowNotification, ioVars, counterVars,
                   twVars, imgVars, notifCreated, notifTimers, scrollVars, themeVars,
                   shareVars>>

(***************************************************************************)
(* 1. In-page links.                                                       *)
(***************************************************************************)
\* document.querySelector(href) for an href that starts with "#": "error" when
\* the text is no valid selector (nothing, or a digit, follows the "#"),
\* "section" when it names the section and the page has it, "null" otherwise
QuerySelector(sel) ==
    IF Len(sel) < 2 \/ sel[2] \in Digits THEN "error"
    ELSE IF sel = <<"#", "s">> /\ "section" \in present THEN "section"
    ELSE "null"

\* where window.scrollTo({top: target.offsetTop - 80}) ends: never above the top
ScrollTarget(offsetTop) ==
    IF offsetTop - HeaderOffset < 0 THEN 0 ELSE offsetTop - HeaderOffset

\* click on link l; the listener exists once the handler has run
AnchorClick(l) ==
    /\ loaded
    /\ l \in present
    /\ LET target == QuerySelector(href[l])
       IN  /\ IF target = "error"
              THEN /\ uncaughtErrors < MaxErrors
                   /\ uncaughtErrors' = uncaughtErrors + 1
              ELSE UNCHANGED uncaughtErrors
           /\ IF target = "section" /\ ScrollTarget(sectionTop) # pageYOffset
              THEN /\ pageYOffset' = ScrollTarget(sectionTop)
                   /\ scrollPending' = TRUE
              ELSE UNCHANGED <<pageYOffset, scrollPending>>
    /\ UNCHANGED <<pageVars, cardTransform, historyVars, loaded, windowShowNotification,
                   ioVars, counterVars, twVars, imgVars, notifVars, scrolled,
                   btnDisplay, heroTransform, aosVisible, themeVars, shareVars>>

(***************************************************************************)
(* 8. Cards.                                                               *)
(***************************************************************************)
CardMouseEnter(k) ==
    /\ loaded
    /\ k \in present
    /\ cardTransform' = [cardTransform EXCEPT ![k] = "lifted"]
    /\ UNCHANGED <<pageVars, uncaughtErrors, historyVars, loaded,
                   windowShowNotification, ioVars, counterVars, twVars, imgVars,
                   notifVars, scrollVars, themeVars, shareVars>>

CardMouseLeave(k) ==
    /\ loaded
    /\ k \in present
    /\ cardTransform' = [cardTransform EXCEPT ![k] = "rest"]
    /\ UNCHANGED <<pageVars, uncaughtErrors, historyVars, loaded,
                   windowShowNotification, ioVars, counterVars, twVars, imgVars,
                   notifVars, scrollVars, themeVars, shareVars>>

(***************************************************************************)
(* 10. Theme.                                                              *)
(***************************************************************************)
\* mutant: the stored value is not read
CurrentThemeNotRead(stored) == "light"

\* localStorage.getItem('theme') || 'light': null and '' are falsy
CurrentTheme(stored) == IF stored \in {Null, ""} THEN "light" ELSE stored

\* mutant: both branches of the conditional give 'dark'
NewThemeAlwaysDark(applied) == "dark"

\* the toggle's newTheme
NewTheme(applied) == IF applied = "light" THEN "dark" ELSE "light"

\* click on #themeToggle; the listener exists once the handler found the element
ThemeToggleClick ==
    /\ loaded
    /\ "themeToggle" \in present
    /\ toggles < MaxToggles
    /\ dataTheme' = NewTheme(dataTheme)
    /\ storage' = NewTheme(dataTheme)
    /\ bodyTransition' = TRUE
    /\ lastToggled' = NewTheme(dataTheme)
    /\ toggles' = toggles + 1
    /\ themeBefore' = Append(themeBefore, [applied |-> dataTheme, stored |-> storage])
    /\ UNCHANGED <<pageVars, handlerVars, staleTimeouts,
                   loaded, windowShowNotification, ioVars, counterVars,
                   twVars, imgVars, notifVars, scrollVars, shareVars>>

(***************************************************************************)
(* Global functions copyToClipboard and shareContent.                      *)
(***************************************************************************)
\* copyToClipboard(text): writeText is called and its promise is pending
CopyToClipboard(st) == [st EXCEPT !.writes = @ + 1, !.pending = @ + 1]

\* shareContent(title, url): st counts the native share calls and the
\* clipboard writes started
ShareContent(st) ==
    IF navigatorShare
    THEN [st EXCEPT !.shares = @ + 1]
    ELSE CopyToClipboard(st)

\* a page script calls shareContent
CallShareContent ==
    /\ nativeShares + clipboardWrites < MaxShares
    /\ LET st == ShareContent([shares |-> nativeShares, writes |-> clipboardWrites,
                               pending |-> clipboardPending])
       IN  /\ nativeShares' = st.shares
           /\ clipboardWrites' = st.writes
           /\ clipboardPending' = st.pending
    /\ UNCHANGED <<pageVars, handlerVars, historyVars,
                   loaded, windowShowNotification, ioVars, counterVars,
                   twVars, imgVars, notifVars, scrollVars, themeVars,
                   clipboardResolved, referenceErrors>>

\* writeText's promise resolves: the then-callback calls showNotification,
\* which is a ReferenceError while window.showNotification is undefined
ClipboardResolves ==
    /\ clipboardPending > 0
    /\ notifCreated < MaxNotifications
    /\ clipboardPending' = clipboardPending - 1
    /\ clipboardResolved' = clipboardResolved + 1
    /\ IF windowShowNotification
       THEN LET st == ShowNotification([created |-> notifCreated,
                                        inPage |-> notifInPage,
                                        timers |-> notifTimers])
            IN  /\ notifCreated' = st.created
                /\ notifInPage' = st.inPage
                /\ notifTimers' = st.timers
                /\ UNCHANGED referenceErrors
       ELSE /\ referenceErrors' = referenceErrors + 1
            /\ UNCHANGED notifVars
    /\ UNCHANGED <<pageVars, handlerVars, historyVars,
                   loaded, windowShowNotification, ioVars, counterVars,
                   twVars, imgVars, scrollVars, themeVars, nativeShares,
                   clipboardWrites>>

\* mutant: the callback is attached for both outcomes
OnRejectedNotifies(st) == ShowNotification(st)

\* what a rejection of writeText's promise does to the notifications: then()
\* was given no rejection callback, so nothing runs
OnRejected(st) == st

\* writeText's promise rejects
ClipboardRejects ==
    /\ clipboardPending > 0
    /\ clipboardPending' = clipboardPending - 1
    /\ LET st == OnRejected([created |-> notifCreated, inPage |-> notifInPage,
                             timers |-> notifTimers])
       IN  /\ notifCreated' = st.created
           /\ notifInPage' = st.inPage
           /\ notifTimers' = st.timers
    /\ UNCHANGED <<pageVars, handlerVars, historyVars,
                   loaded, windowShowNotification, ioVars, counterVars,
                   twVars, imgVars, scrollVars, themeVars, nativeShares,
                   clipboardWrites, clipboardResolved, referenceErrors>>

(***************************************************************************)
(* The DOMContentLoaded handler.                                           *)
(***************************************************************************)
DOMContentLoaded ==
    /\ ~loaded
    /\ loaded' = TRUE
    \* 2. animateOnScroll() once at load
    /\ aosVisible' = aosVisible \cup AnimateOnScroll(pageYOffset)
    \* 4, 5, 7. observers are created and observe the elements found
    /\ ioTargets' = [o \in Observers |->
                        IF o = "counter" THEN Counters \cap present
                        ELSE IF o = "image" THEN Images \cap present
                        ELSE {o} \cap present]
    \* 5. each typewriter is emptied; its text stays in the closure
    /\ twDisplay' = [t \in Typewriters |-> IF t \in present THEN <<>> ELSE twDisplay[t]]
    \* 6. window.showNotification is assigned
    /\ windowShowNotification' = TRUE
    \* 9. the scroll-to-top button is created with display: none
    /\ btnDisplay' = "none"
    \* 10. the persisted theme is applied when the toggle exists
    /\ dataTheme' = IF "themeToggle" \in present THEN CurrentTheme(storage)
                    ELSE dataTheme
    /\ UNCHANGED <<pageVars, handlerVars, historyVars,
                   ioPrev, ioQueue, started, counterVars, twI, twTimeouts,
                   imgVars, notifVars, pageYOffset, scrollPending, scrolled,
                   heroTransform, storage, bodyTransition, lastToggled, toggles,
                   shareVars>>

\* The page is loaded again: a fresh document and script, the same markup and
\* the same local storage.  lastToggled is history, it survives.
Reload ==
    /\ loaded
    /\ loaded' = FALSE
    /\ windowShowNotification' = FALSE
    /\ ioTargets' = [o \in Observers |-> {}]
    /\ ioPrev' = [e \in OneShots |-> "none"]
    /\ ioQueue' = [o \in Observers |-> <<>>]
    /\ started' = [e \in OneShots |-> 0]
    /\ counterText' = [c \in Counters |-> Orig]
    /\ ramps' = [c \in Counters |-> <<>>]
    /\ turn' = [c \in Counters |-> 0]
    /\ roundErr' = [c \in Counters |-> 0]
    /\ twDisplay' = twText
    /\ twI' = [t \in Typewriters |-> 0]
    /\ twTimeouts' = [t \in Typewriters |-> 0]
    /\ imgSrc' = [i \in Images |-> "placeholder"]
    /\ imgLoaded' = [i \in Images |-> FALSE]
    /\ notifCreated' = 0
    /\ notifInPage' = {}
    /\ notifTimers' = {}
    /\ scrollPending' = FALSE
    /\ scrolled' = FALSE
    /\ btnDisplay' = "absent"
    /\ heroTransform' = [set |-> FALSE, halfPx |-> 0]
    /\ aosVisible' = {}
    /\ dataTheme' = Null
    /\ bodyTransition' = FALSE
    /\ toggles' = 0
    /\ nativeShares' = 0
    /\ clipboardWrites' = 0
    /\ clipboardPending' = 0
    /\ clipboardResolved' = 0
    /\ referenceErrors' = 0
    /\ cardTransform' = [k \in Cards |-> "unset"]
    /\ uncaughtErrors' = 0
    /\ themeBefore' = <<>>
    /\ staleTimeouts' = {}
    /\ UNCHANGED <<pageVars, storage, lastToggled, pageYOffset>>


(***************************************************************************)
(* Specifications.  Next is every step of the page; the others follow one  *)
(* feature on a page that carries only that feature's elements.            *)
(***************************************************************************)
ObserverStep ==
    \/ \E e \in OneShots, b \in {"yes", "no"} : IOUpdate(e, b)
    \/ CounterObserverNotify
    \/ \E t \in Typewriters : TypewriterObserverNotify(t)
    \/ ImageObserverNotify

TimerStep ==
    \/ \E c \in Counters : CounterTick(c)
    \/ \E t \in Typewriters : TypeWriterTimeout(t)
    \/ \E n \in 1..MaxNotifications : NotificationTimerFires(n)

Next ==
    \/ DOMContentLoaded
    \/ Reload
    \/ ObserverStep
    \/ TimerStep
    \/ \E y \in ScrollOffsets : Scroll(y)
    \/ ScrollEvent
    \/ ScrollToTopClick
    \/ CallShowNotification
    \/ \E n \in 1..MaxNotifications : Dismiss(n)
    \/ ThemeToggleClick
    \/ CallShareContent
    \/ ClipboardResolves
    \/ ClipboardRejects
    \/ \E l \in Anchors : AnchorClick(l)
    \/ \E k \in Cards : CardMouseEnter(k)
    \/ \E k \in Cards : CardMouseLeave(k)

Spec == Init /\ [][Next]_vars

\* The browser dispatches DOMContentLoaded, delivers queued observer entries,
\* fires running timers and dispatches the scroll event after a scroll; what
\* the user and page scripts do is not fair.
BrowserFairness ==
    /\ WF_vars(DOMContentLoaded)
    /\ WF_vars(CounterObserverNotify)
    /\ WF_vars(ImageObserverNotify)
    /\ WF_vars(ScrollEvent)
    /\ \A t \in Typewriters : WF_vars(TypewriterObserverNotify(t))
    /\ \A c \in Counters : WF_vars(CounterTick(c))
    /\ \A t \in Typewriters : WF_vars(TypeWriterTimeout(t))
    /\ \A n \in 1..MaxNotifications : WF_vars(NotificationTimerFires(n))

\* counters alone
InitCounter ==
    /\ present = Counters
    /\ twText = [t \in Typewriters |-> <<>>]
    /\ aosTop = [e \in AosElements |-> 200]
    /\ navigatorShare = FALSE
    /\ storage = Null
    /\ pageYOffset = 0
    /\ href = [l \in Anchors |-> <<"#", "s">>]
    /\ sectionTop = 680
    /\ Init

NextCounter ==
    \/ DOMContentLoaded
    \/ \E e \in Counters, b \in {"yes", "no"} : IOUpdate(e, b)
    \/ CounterObserverNotify
    \/ \E c \in Counters : CounterTick(c)

SpecCounter == InitCounter /\ [][NextCounter]_vars /\ BrowserFairness

\* every one-shot element, with counters whose ramp takes one tick
InitOneShot ==
    /\ present = OneShots
    /\ targetAttr \in [Counters -> {<<"0">>, <<"-", "5">>}]
    /\ aosTop = [e \in AosElements |-> 200]
    /\ navigatorShare = FALSE
    /\ storage = Null
    /\ pageYOffset = 0
    /\ href = [l \in Anchors |-> <<"#", "s">>]
    /\ sectionTop = 680
    /\ Init

NextOneShot ==
    \/ DOMContentLoaded
    \/ ObserverStep
    \/ \E c \in Counters : CounterTick(c)
    \/ \E t \in Typewriters : TypeWriterTimeout(t)

SpecOneShot == InitOneShot /\ [][NextOneShot]_vars /\ BrowserFairness

\* typewriters alone
InitTypewriter ==
    /\ present = Typewriters
    /\ targetAttr = [c \in Counters |-> <<"0">>]
    /\ aosTop = [e \in AosElements |-> 200]
    /\ navigatorShare = FALSE
    /\ storage = Null
    /\ pageYOffset = 0
    /\ href = [l \in Anchors |-> <<"#", "s">>]
    /\ sectionTop = 680
    /\ Init

NextTypewriter ==
    \/ DOMContentLoaded
    \/ \E t \in Typewriters, b \in {"yes", "no"} : IOUpdate(t, b)
    \/ \E t \in Typewriters : TypewriterObserverNotify(t)
    \/ \E t \in Typewriters : TypeWriterTimeout(t)

SpecTypewriter == InitTypewriter /\ [][NextTypewriter]_vars /\ BrowserFairness

\* the theme, with and without the toggle, over page loads of a page the user
\* also scrolls
InitTheme ==
    /\ present \in {{}, {"themeToggle"}}
    /\ targetAttr = [c \in Counters |-> <<"0">>]
    /\ twText = [t \in Typewriters |-> <<>>]
    /\ aosTop = [e \in AosElements |-> 200]
    /\ navigatorShare = FALSE
    /\ pageYOffset = 0
    /\ href = [l \in Anchors |-> <<"#", "s">>]
    /\ sectionTop = 680
    /\ Init

NextTheme ==
    \/ DOMContentLoaded
    \/ ThemeToggleClick
    \/ Reload
    \/ \E y \in ScrollOffsets : Scroll(y)
    \/ ScrollEvent

SpecTheme == InitTheme /\ [][NextTheme]_vars /\ BrowserFairness

\* scrolling, with and without the hero section
InitScroll ==
    /\ present \in {AosElements, AosElements \cup {"hero"}}
    /\ targetAttr = [c \in Counters |-> <<"0">>]
    /\ twText = [t \in Typewriters |-> <<>>]
    /\ navigatorShare = FALSE
    /\ storage = Null
    /\ href = [l \in Anchors |-> <<"#", "s">>]
    /\ sectionTop = 680
    /\ Init

NextScroll ==
    \/ DOMContentLoaded
    \/ \E y \in ScrollOffsets : Scroll(y)
    \/ ScrollEvent
    \/ ScrollToTopClick

SpecScroll == InitScroll /\ [][NextScroll]_vars /\ BrowserFairness

\* notifications and sharing
InitShare ==
    /\ present = {}
    /\ targetAttr = [c \in Counters |-> <<"0">>]
    /\ twText = [t \in Typewriters |-> <<>>]
    /\ aosTop = [e \in AosElements |-> 200]
    /\ storage = Null
    /\ pageYOffset = 0
    /\ href = [l \in Anchors |-> <<"#", "s">>]
    /\ sectionTop = 680
    /\ Init

NextShare ==
    \/ DOMContentLoaded
    \/ CallShowNotification
    \/ \E n \in 1..MaxNotifications : NotificationTimerFires(n)
    \/ \E n \in 1..MaxNotifications : Dismiss(n)
    \/ CallShareContent
    \/ ClipboardResolves
    \/ ClipboardRejects

SpecShare == InitShare /\ [][NextShare]_vars /\ BrowserFairness


(***************************************************************************)
(* Claims.                                                                 *)
(***************************************************************************)
Target(c) == ParseInt(targetAttr[c])

RampStarted(c) == ramps[c] # <<>>
RampStopped(c) == RampStarted(c) /\ Running(ramps[c]) = {}

IsPrefix(p, t) == Len(p) <= Len(t) /\ \A k \in 1..Len(p) : p[k] = t[k]

\* C1: for a counter whose parsed data-target is a number T >= 0, the values
\* the ramp writes never decrease, whenever its timers are cleared the
\* element shows exactly T, and a started ramp always gets there.
C1_MonotoneStep ==
    \A c \in Counters :
        (Target(c).kind = "num" /\ Target(c).val >= 0
            /\ counterText[c].kind = "num" /\ counterText'[c] # counterText[c])
        => (counterText'[c].kind = "num" /\ counterText'[c].val >= counterText[c].val)

C1_StoppedAtTarget ==
    \A c \in Counters :
        (Target(c).kind = "num" /\ Target(c).val >= 0 /\ RampStopped(c))
        => counterText[c] = Target(c)

C1_RampMonotoneToTarget ==
    /\ [][C1_MonotoneStep]_vars
    /\ [](C1_StoppedAtTarget)
    /\ \A c \in Counters :
          (Target(c).kind = "num" /\ Target(c).val >= 0 /\ RampStarted(c))
          ~> (RampStopped(c) /\ counterText[c] = Target(c))

\* a ramp toward a positive target has run through its intermediate values and
\* stopped on the target
C1_Witness ==
    \E c \in Counters :
        /\ Target(c).kind = "num" /\ Target(c).val = 250
        /\ RampStopped(c)
        /\ counterText[c] = Num(250)
        /\ ramps[c][1].ticks > 100

\* C2 (as claimed): the animation of a one-shot element is started at most
\* once, whatever entries the observer callbacks receive.
C2_StartedAtMostOnce == \A e \in OneShots : started[e] <= 1

\* C3: on a page with the theme toggle, the theme applied by a page load is
\* the value the last toggle click wrote, and "light" when nothing is stored.
C3_ThemePersists ==
    (loaded /\ "themeToggle" \in present /\ toggles = 0)
    => /\ lastToggled # Null => dataTheme = lastToggled
       /\ storage = Null => dataTheme = "light"

\* the page was toggled to dark, loaded again, and shows dark
C3_Witness ==
    /\ loaded /\ "themeToggle" \in present /\ toggles = 0
    /\ lastToggled = "dark" /\ dataTheme = "dark"

\* C4: once a scroll event has been handled for the current offset, the
\* scroll-to-top button is hidden at offsets <= 300 and shown above 300.
C4_ButtonFollowsOffset ==
    (scrolled /\ ~scrollPending)
    => /\ pageYOffset <= 300 => btnDisplay = "none"
       /\ pageYOffset > 300 => btnDisplay = "flex"

\* the page came back to exactly 300 and the button is hidden again
C4_Witness ==
    /\ scrolled /\ ~scrollPending
    /\ pageYOffset = 300 /\ btnDisplay = "none"
    /\ heroTransform = [set |-> TRUE, halfPx |-> 0 - 300]

\* C5 (as claimed): with native share the clipboard is never written; without
\* it every call writes the clipboard, and every write that succeeded has
\* shown its notification.
C5_ShareOrCopyThenNotify ==
    /\ navigatorShare => clipboardWrites = 0
    /\ ~navigatorShare => nativeShares = 0
    /\ clipboardResolved <= notifCreated

\* C6: a notification in the page always has its timeout pending, and every
\* notification in the page is eventually out of the page, dismissed or not.
C6_NotificationsSelfRemove ==
    /\ [](notifInPage \subseteq notifTimers)
    /\ \A n \in 1..MaxNotifications : (n \in notifInPage) ~> (n \notin notifInPage)

\* every notification created has left the page and no timeout is pending
C6_Witness ==
    /\ notifCreated = MaxNotifications
    /\ notifInPage = {}
    /\ notifTimers = {}

\* C7: a ramp toward 0 runs one tick: that tick writes 0 and clears the timer.
C7_ZeroTargetOneTick ==
    \A c \in Counters : \A j \in DOMAIN ramps[c] :
        ramps[c][j].target = Num(0)
        => /\ ramps[c][j].ticks <= 1
           /\ ramps[c][j].ticks = 1
                => (~ramps[c][j].active /\ counterText[c] = Num(0))

C7_Witness ==
    \E c \in Counters :
        /\ Target(c) = Num(0)
        /\ RampStopped(c)
        /\ ramps[c][1].ticks = 1
        /\ counterText[c] = Num(0)

\* C8 (as claimed): a counter whose data-target does not parse to a number
\* keeps the content it had in the markup.
C8_MalformedTargetNoOp ==
    \A c \in Counters : Target(c).kind = "nan" => counterText[c] = Orig

\* C9: once a typewriter is triggered its content is a prefix of the source
\* text, every timer step that changes it appends exactly the next character,
\* the content never shrinks, the full text is reached and then stays.
C9_Prefix ==
    \A t \in Typewriters \cap present :
        started[t] >= 1 => (IsPrefix(twDisplay[t], twText[t]) /\ twI[t] = Len(twDisplay[t]))

C9_TimerStep ==
    \A t \in Typewriters \cap present :
        (started[t] >= 1 /\ twDisplay'[t] # twDisplay[t])
        => /\ Len(twDisplay[t]) < Len(twText[t])
           /\ twDisplay'[t] = Append(twDisplay[t], twText[t][Len(twDisplay[t]) + 1])
           /\ twI'[t] = twI[t] + 1

C9_TypewriterReveals ==
    /\ [](C9_Prefix)
    /\ [][C9_TimerStep]_vars
    /\ \A t \in Typewriters :
          (started[t] >= 1) ~> [](twDisplay[t] = twText[t])

\* the whole of a text of full length is shown and no timeout is left
C9_Witness ==
    \E t \in Typewriters \cap present :
        /\ started[t] >= 1
        /\ Len(twText[t]) = MaxTextLen
        /\ twDisplay[t] = twText[t]
        /\ twTimeouts[t] = 0

\* C10 (as claimed): every call of showNotification, by a page script or by
\* the clipboard callback of shareContent, finds the function defined.
C10_ShowNotificationCallable == referenceErrors = 0


\* pages that lack some of the optional elements: every choice of hero,
\* toggle, link, section, card, counter and one animate-on-scroll element
InitMissing ==
    /\ present \in SUBSET {"hero", "themeToggle", "l1", "section", "k1", "c1", "a1"}
    /\ targetAttr = [c \in Counters |-> <<"0">>]
    /\ twText = [t \in Typewriters |-> <<>>]
    /\ aosTop = [e \in AosElements |-> 200]
    /\ navigatorShare = FALSE
    /\ storage = Null
    /\ pageYOffset = 0
    /\ Init

NextMissing ==
    \/ DOMContentLoaded
    \/ \E l \in Anchors : AnchorClick(l)
    \/ ScrollEvent
    \/ ScrollToTopClick
    \/ \E k \in Cards : CardMouseEnter(k)
    \/ \E k \in Cards : CardMouseLeave(k)
    \/ ThemeToggleClick
    \/ \E e \in Counters, b \in {"yes", "no"} : IOUpdate(e, b)
    \/ CounterObserverNotify
    \/ \E c \in Counters : CounterTick(c)

SpecMissing == InitMissing /\ [][NextMissing]_vars /\ BrowserFairness

\* C11 (as claimed): whatever optional elements the page lacks, no handler
\* throws, the features of the absent elements do nothing, and the features
\* that need no element are attached by the page load.
C11_MissingElementsTolerated ==
    /\ uncaughtErrors = 0
    /\ loaded => (windowShowNotification /\ btnDisplay # "absent")
    /\ "hero" \notin present => ~heroTransform.set
    /\ "themeToggle" \notin present => (dataTheme = Null /\ ~bodyTransition)
    /\ \A c \in Counters \ present : ramps[c] = <<>> /\ counterText[c] = Orig
    /\ \A k \in Cards \ present : cardTransform[k] = "unset"
    /\ aosVisible \subseteq present


\* C12 (as claimed): running a scroll listener twice at the same offset, or an
\* observer callback twice with the same queued entries, leaves the page and
\* the timers as one run does.
C12_CounterCallbackTwice ==
    LET once == CounterObserverCallback(ioQueue["counter"],
                    [ramps |-> ramps, targets |-> ioTargets["counter"],
                     started |-> started])
        twice == CounterObserverCallback(ioQueue["counter"], once)
    IN  twice.ramps = once.ramps

C12_TypewriterCallbackTwice ==
    \A t \in Typewriters :
        LET once == TypewriterObserverCallback(t, ioQueue[t],
                        [display |-> twDisplay, i |-> twI, timeouts |-> twTimeouts,
                         targets |-> ioTargets[t], started |-> started])
            twice == TypewriterObserverCallback(t, ioQueue[t], once)
        IN  twice.display = once.display /\ twice.timeouts = once.timeouts

C12_ImageCallbackTwice ==
    LET once == ImageObserverCallback(ioQueue["image"],
                    [src |-> imgSrc, loaded |-> imgLoaded,
                     targets |-> ioTargets["image"], started |-> started])
        twice == ImageObserverCallback(ioQueue["image"], once)
    IN  twice.src = once.src /\ twice.loaded = once.loaded

C12_ScrollListenersTwice ==
    LET once == aosVisible \cup AnimateOnScroll(pageYOffset)
    IN  once \cup AnimateOnScroll(pageYOffset) = once

C12_CallbacksIdempotent ==
    /\ C12_ScrollListenersTwice
    /\ C12_ImageCallbackTwice
    /\ C12_CounterCallbackTwice
    /\ C12_TypewriterCallbackTwice


\* C13 (as claimed): every ramp that is started is eventually stopped, whatever
\* parseInt returned for data-target.
C13_EveryRampStops ==
    \A c \in Counters : RampStarted(c) ~> RampStopped(c)


\* C14: a step in which a pending clipboard write is rejected inserts no
\* notification and changes nothing else of the page.
C14_RejectionStep ==
    (clipboardPending' < clipboardPending /\ clipboardResolved' = clipboardResolved)
    => /\ notifCreated' = notifCreated
       /\ notifInPage' = notifInPage
       /\ notifTimers' = notifTimers
       /\ UNCHANGED <<pageVars, handlerVars, historyVars, loaded,
                      windowShowNotification, ioVars, counterVars, twVars, imgVars,
                      scrollVars, themeVars, nativeShares, clipboardWrites,
                      referenceErrors>>

C14_RejectionShowsNothing == [][C14_RejectionStep]_vars

\* after the page load a write was rejected and no notification was ever made
C14_Witness ==
    /\ loaded
    /\ clipboardWrites = 1
    /\ clipboardPending = 0
    /\ clipboardResolved = 0
    /\ notifCreated = 0


\* C15 (as claimed): after the page load of a page with the toggle, the applied
\* theme is "light" or "dark", and so is the persisted value when there is
\* one, whatever the slot held before.
C15_ThemeIsLightOrDark ==
    (loaded /\ "themeToggle" \in present)
    => /\ dataTheme \in {"light", "dark"}
       /\ storage \in {"light", "dark", Null}


\* the attribute and the stored value before the last but one click
BeforeTwoClicks == themeBefore[Len(themeBefore) - 1]

\* C16 (as claimed): after a toggle click the persisted value equals the
\* applied attribute, and after two consecutive clicks both are what they were
\* before the first of the two.
C16_TwoClicksRestoreBoth ==
    /\ toggles > 0 => storage = dataTheme
    /\ Len(themeBefore) >= 2
         => (dataTheme = BeforeTwoClicks.applied /\ storage = BeforeTwoClicks.stored)

\* C16 (amended): after a toggle click the persisted value equals the applied
\* attribute and both are "light" or "dark"; after two consecutive clicks both
\* are "light" when the attribute was "light" before the first of the two, and
\* "dark" otherwise.
C16_TwoClicksRestoreApplied ==
    /\ toggles > 0 => (storage = dataTheme /\ dataTheme \in {"light", "dark"})
    /\ Len(themeBefore) >= 2
         => /\ dataTheme = (IF BeforeTwoClicks.applied = "light" THEN "light" ELSE "dark")
            /\ storage = dataTheme

\* two clicks from dark, stored and applied, are back on dark
C16_Witness ==
    /\ Len(themeBefore) >= 2
    /\ BeforeTwoClicks = [applied |-> "dark", stored |-> "dark"]
    /\ dataTheme = "dark"
    /\ storage = "dark"


\* C17: when the 5000 ms timer of notification n fires, the only node that can
\* leave the page is n, and nothing happens at all when n was already removed:
\* no other notification goes, no error is raised, no other state changes.
C17_TimerStep ==
    (notifTimers' # notifTimers /\ notifTimers' \subseteq notifTimers)
        => /\ \E n \in notifTimers :
                /\ notifTimers' = notifTimers \ {n}
                /\ notifInPage' = notifInPage \ {n}
           /\ notifCreated' = notifCreated
           /\ UNCHANGED <<pageVars, handlerVars, themeBefore, loaded,
                          windowShowNotification, ioVars, counterVars, twVars,
                          imgVars, scrollVars, themeVars, shareVars>>

C17_StaleTimerIsNoOp == [][C17_TimerStep]_vars

\* the timer of a dismissed notification has fired while another notification
\* is still in the page
C17_Witness ==
    \E n \in staleTimeouts :
        \E m \in notifInPage : m # n /\ m \in notifTimers

\* C18: class 'visible' is added when the handler runs and on a scroll event,
\* to exactly the elements whose top is then less than the viewport height
\* minus 150, and no step ever removes it.
C18_VisibleStep ==
    LET ran == (~loaded /\ loaded') \/ (loaded /\ scrollPending /\ ~scrollPending')
        inView == {e \in AosElements \cap present :
                      aosTop[e] - pageYOffset < innerHeight - ElementVisible}
    IN  aosVisible' = aosVisible \cup (IF ran THEN inView ELSE {})

C18_VisibleIsOneWay == [][C18_VisibleStep]_vars

\* an element that became visible is out of view again after a scroll event,
\* and still has the class
C18_Witness ==
    /\ scrolled
    /\ ~scrollPending
    /\ \E e \in aosVisible : aosTop[e] - pageYOffset >= innerHeight - ElementVisible

=============================================================================
